---- MODULE Spec2Model ----
(***************************************************************************)
(* Model of the statistical analysis engine of survey-data-analyzer        *)
(* (src/src/analyzer.py, class SurveyAnalyzer).                             *)
(*                                                                         *)
(* A cell value is null, a number or a text.  A text is a sequence of      *)
(* one-character strings, so that str(), len() and float() are computed    *)
(* and not assumed.  Percentages that Python rounds to one decimal are     *)
(* kept as integers counting tenths (833 is 83.3), floats that it rounds to *)
(* two decimals as integers counting hundredths.                           *)
(*                                                                         *)
(* The class is modelled as its methods are written, lines 13 to 306.  The *)
(* methods it calls but does not define (analyze_response_consistency,     *)
(* find_common_response_combinations, analyze_demographics,                *)
(* analyze_text_responses, categorize_satisfaction_score,                  *)
(* create_satisfaction_distribution) raise AttributeError where they are   *)
(* looked up.  Line 307 of the file, "</lov-write>", is not Python and is  *)
(* left out: with it the module does not compile at all.                   *)
(*                                                                         *)
(* An operation is modelled by a call: the initial states hold the         *)
(* operation and its argument, the action applies it.                      *)
(***************************************************************************)
EXTENDS Integers, Sequences, FiniteSets, TLC

VARIABLES
    data,               \* the dataset handed to the engine (list of records)
    values,             \* the value list handed to a per-column operation
    analysis_results,   \* SurveyAnalyzer.analysis_results
    numeric_threshold,  \* SurveyAnalyzer.numeric_threshold, in percent
    op,                 \* the operation that is being / was called
    pc,                 \* "call" before the operation ran, "done" after
    result,             \* what the operation returned or raised
    engines,            \* two SurveyAnalyzer instances that are called repeatedly
    app,                \* the SurveyDataApp object of main.py
    log                 \* what the application did last: menu choice, analyzer call, export

vars == <<data, values, analysis_results, numeric_threshold, op, pc, result,
          engines, app, log>>

(***************************************************************************)
(* Bounds of the model.                                                    *)
(***************************************************************************)
MaxValues == 5           \* longest value list given to the type classifier
MaxRecords == 3          \* most records in a dataset of complete records
MaxRaggedRecords == 2    \* most records in a dataset of records with unequal keys
MaxCategoryValues == 6   \* longest grouped value list given to the categorical analysis
MaxOrderedValues == 3    \* longest value list given to it in every order
MaxTallRecords == 20     \* most records in a dataset of one column
MaxSatisfactionValues == 3  \* longest value list given to the satisfaction analysis
MaxProfileValues == 5    \* longest value list given to analyze_column
MaxNumericValues == 4    \* longest value list given to analyze_numeric_column
MaxSessionRecords == 2   \* most records in a dataset given to a repeatedly called engine
MaxCalls == 3            \* most calls made on one engine
MaxManualRows == 2       \* most rows typed in a manual import
MaxCsvRecords == 2       \* most records in an imported CSV file

\* self.numeric_threshold = 0.8, in percent
DefaultNumericThreshold == 80

(***************************************************************************)
(* Values                                                                  *)
(***************************************************************************)
Null == [k |-> "null", n |-> 0, s |-> <<>>]
Num(i) == [k |-> "num", n |-> i, s |-> <<>>]
Text(t) == [k |-> "text", n |-> 0, s |-> t]
\* True and False: they count as 1 and 0, and print as True and False.
Bool(b) == [k |-> "bool", n |-> IF b THEN 1 ELSE 0, s |-> <<>>]

IsNone(v) == v.k = "null"

\* value == '' in Python: only the empty text equals ''.
IsEmptyStr(v) == v.k = "text" /\ v.s = <<>>

\* bool(v), as used by "if v" in analyze_text_column.
Truthy(v) ==
    CASE v.k = "null" -> FALSE
      [] v.k \in {"num", "bool"} -> v.n # 0
      [] OTHER -> v.s # <<>>

Digits == <<"0", "1", "2", "3", "4", "5", "6", "7", "8", "9">>
DigitSet == {Digits[i] : i \in 1..10}

RECURSIVE NatStr(_)
NatStr(i) == IF i < 10 THEN <<Digits[i + 1]>>
             ELSE NatStr(i \div 10) \o <<Digits[(i % 10) + 1]>>

\* str(v): the textual form of a value.
Str(v) ==
    CASE v.k = "null" -> <<"N", "o", "n", "e">>
      [] v.k = "num" -> IF v.n < 0 THEN <<"-">> \o NatStr(-v.n) ELSE NatStr(v.n)
      [] v.k = "bool" -> IF v.n = 1 THEN <<"T", "r", "u", "e">>
                         ELSE <<"F", "a", "l", "s", "e">>
      [] OTHER -> v.s

(***************************************************************************)
(* float(): Python's grammar for a float literal given as text.            *)
(*   strip whitespace; [sign] (inf | infinity | nan), any letter case; or  *)
(*   [sign] (digitpart ["." [digitpart]] | "." digitpart)                  *)
(*          [("e" | "E") [sign] digitpart]                                 *)
(*   digitpart = digit (["_"] digit)*                                      *)
(***************************************************************************)
Whitespace == {" ", "\t", "\n"}

\* The place of the first character of t at or after i that is not
\* whitespace, Len(t) + 1 if there is none.
RECURSIVE FirstSolid(_, _)
FirstSolid(t, i) ==
    IF i > Len(t) \/ t[i] \notin Whitespace THEN i ELSE FirstSolid(t, i + 1)

\* The place of the last character of t at or before i that is not
\* whitespace, 0 if there is none.
RECURSIVE LastSolid(_, _)
LastSolid(t, i) ==
    IF i < 1 \/ t[i] \notin Whitespace THEN i ELSE LastSolid(t, i - 1)

\* str.strip(): without the leading and trailing whitespace.
Strip(t) == SubSeq(t, FirstSolid(t, 1), LastSolid(t, Len(t)))

UpperCase == <<"A", "B", "C", "D", "E", "F", "G", "H", "I", "J", "K", "L", "M",
               "N", "O", "P", "Q", "R", "S", "T", "U", "V", "W", "X", "Y", "Z">>
LowerCase == <<"a", "b", "c", "d", "e", "f", "g", "h", "i", "j", "k", "l", "m",
               "n", "o", "p", "q", "r", "s", "t", "u", "v", "w", "x", "y", "z">>

LowerChar(c) == IF \E i \in 1..26 : UpperCase[i] = c
                THEN LowerCase[CHOOSE i \in 1..26 : UpperCase[i] = c]
                ELSE c

\* str.lower()
Lower(t) == [i \in 1..Len(t) |-> LowerChar(t[i])]

FloatWords == {<<"i", "n", "f">>, <<"n", "a", "n">>,
               <<"i", "n", "f", "i", "n", "i", "t", "y">>}

\* One step of the automaton that recognises the decimal forms.
FloatStep(q, c) ==
    LET d == c \in DigitSet
        sign == c \in {"+", "-"}
        e == c \in {"e", "E"}
    IN CASE q = "start" -> IF sign THEN "signed" ELSE IF d THEN "int"
                           ELSE IF c = "." THEN "dot0" ELSE "fail"
         [] q = "signed" -> IF d THEN "int" ELSE IF c = "." THEN "dot0" ELSE "fail"
         [] q = "int" -> IF d THEN "int" ELSE IF c = "_" THEN "int_"
                         ELSE IF c = "." THEN "dot1" ELSE IF e THEN "exp0" ELSE "fail"
         [] q = "int_" -> IF d THEN "int" ELSE "fail"
         [] q = "dot0" -> IF d THEN "frac" ELSE "fail"
         [] q = "dot1" -> IF d THEN "frac" ELSE IF e THEN "exp0" ELSE "fail"
         [] q = "frac" -> IF d THEN "frac" ELSE IF c = "_" THEN "frac_"
                          ELSE IF e THEN "exp0" ELSE "fail"
         [] q = "frac_" -> IF d THEN "frac" ELSE "fail"
         [] q = "exp0" -> IF sign THEN "exp1" ELSE IF d THEN "exp" ELSE "fail"
         [] q = "exp1" -> IF d THEN "exp" ELSE "fail"
         [] q = "exp" -> IF d THEN "exp" ELSE IF c = "_" THEN "exp_" ELSE "fail"
         [] q = "exp_" -> IF d THEN "exp" ELSE "fail"
         [] OTHER -> "fail"

\* The automaton's state after reading t[lo..hi] from state q.
RECURSIVE FloatRun(_, _, _, _)
FloatRun(t, lo, hi, q) ==
    IF lo > hi \/ q = "fail" THEN q
    ELSE IF lo = hi THEN FloatStep(q, t[lo])
    ELSE LET mid == (lo + hi) \div 2
         IN FloatRun(t, mid + 1, hi, FloatRun(t, lo, mid, q))

\* The text without its sign, if it starts with one.
Unsigned(u) == IF u # <<>> /\ Head(u) \in {"+", "-"} THEN Tail(u) ELSE u

\* w is inf, infinity or nan in any letter case.
IsFloatWord(w) == Len(w) \in {Len(x) : x \in FloatWords} /\ Lower(w) \in FloatWords

\* The stripped text u is a float literal.
IsFloatLiteral(u) ==
    \/ IsFloatWord(Unsigned(u))
    \/ FloatRun(u, 1, Len(u), "start") \in {"int", "dot1", "frac", "exp"}

\* float(t) succeeds for the text t (it raises ValueError otherwise).
ParsesAsFloat(t) == IsFloatLiteral(Strip(t))

\* float(str(value)) succeeds, as tried by determine_data_type.
StrIsNumeric(v) == ParsesAsFloat(Str(v))

\* float(value) succeeds, as tried by the numeric analyses: a number converts,
\* a text is parsed, None raises TypeError.
FloatOk(v) ==
    CASE v.k = "null" -> FALSE
      [] v.k \in {"num", "bool"} -> TRUE
      [] OTHER -> ParsesAsFloat(v.s)

(***************************************************************************)
(* Small helpers over sequences                                            *)
(***************************************************************************)
RECURSIVE SumSeq(_)
SumSeq(q) == IF q = <<>> THEN 0 ELSE Head(q) + SumSeq(Tail(q))

\* The integer nearest to num / den (den > 0), the even one at a tie: what
\* Python's round() gives on the exact quotient.  Python rounds the double
\* nearest to the quotient instead; the two differ only when the quotient is
\* closer than a double-precision ulp to a tie without being one, which no
\* quotient of the sizes used here is.
RoundHalfEven(num, den) ==
    LET fl == num \div den
        twice == 2 * (num - fl * den)
    IN IF twice < den THEN fl
       ELSE IF twice > den THEN fl + 1
       ELSE IF fl % 2 = 0 THEN fl ELSE fl + 1

(***************************************************************************)
(* determine_data_type                                                     *)
(***************************************************************************)
numeric_count(vs) == Cardinality({i \in 1..Len(vs) : StrIsNumeric(vs[i])})

\* Summed len(str(value)) of the values whose parse failed.
text_length_total(vs) ==
    SumSeq([i \in 1..Len(vs) |-> IF StrIsNumeric(vs[i]) THEN 0 ELSE Len(Str(vs[i]))])

\* Variant: the threshold itself is not enough (numeric_ratio > threshold).
RatioAboveThreshold(vs) ==
    numeric_count(vs) * 100 > numeric_threshold * Len(vs)

\* numeric_ratio >= self.numeric_threshold, the threshold kept in percent.
RatioAtLeastThreshold(vs) ==
    numeric_count(vs) * 100 >= numeric_threshold * Len(vs)

\* Variant: the average is taken over the values that failed the parse only.
AvgFailedTextLengthOver50(vs) ==
    text_length_total(vs) > 50 * (Len(vs) - numeric_count(vs))

\* avg_text_length > 50, with avg_text_length = text_length_total / len(values).
AvgTextLengthOver50(vs) == text_length_total(vs) > 50 * Len(vs)

determine_data_type(vs) ==
    IF vs = <<>> THEN "unknown"
    ELSE IF RatioAtLeastThreshold(vs) THEN "numeric"
    ELSE IF AvgTextLengthOver50(vs) THEN "text"
    ELSE "categorical"
(***************************************************************************)
(* Python values built by the engine                                       *)
(***************************************************************************)
\* A dict is a function from its keys; d1.update(d2) is d2 @@ d1.
EmptyDict == <<>>
Update(d1, d2) == d2 @@ d1

Returned(v) == [status |-> "returned", value |-> v]
Raised(e) == [status |-> "raised", value |-> e]

\* f"{x}%" for a float x with one decimal, x given in tenths: 833 is "83.3%".
PercentStr(tenths) ==
    LET a == IF tenths < 0 THEN -tenths ELSE tenths
    IN (IF tenths < 0 THEN <<"-">> ELSE <<>>)
       \o NatStr(a \div 10) \o <<".">> \o NatStr(a % 10) \o <<"%">>

RECURSIVE DigitsValue(_)
DigitsValue(t) ==
    IF t = <<>> THEN 0
    ELSE IF t[Len(t)] = "_" THEN DigitsValue(SubSeq(t, 1, Len(t) - 1))
    ELSE 10 * DigitsValue(SubSeq(t, 1, Len(t) - 1))
         + (CHOOSE i \in 0..9 : Digits[i + 1] = t[Len(t)])

\* float(v) in hundredths, for a number or for a text of the form
\* [sign] digits ["." digits] with at most two decimals (the texts the
\* numeric analyses are given here).
\* The place of the decimal point of w, Len(w) + 1 if it has none.
DotAt(w) ==
    IF \E i \in 1..Len(w) : w[i] = "." THEN CHOOSE i \in 1..Len(w) : w[i] = "."
    ELSE Len(w) + 1

\* The decimals frac as a number of hundredths.
Hundredths(frac) ==
    IF Len(frac) = 0 THEN 0
    ELSE IF Len(frac) = 1 THEN 10 * DigitsValue(frac)
    ELSE DigitsValue(SubSeq(frac, 1, 2))

\* The unsigned literal w, its decimal point at dot, in hundredths.
LiteralValue(w, dot) ==
    100 * DigitsValue(SubSeq(w, 1, dot - 1)) + Hundredths(SubSeq(w, dot + 1, Len(w)))

\* The stripped literal u in hundredths.
SignedValue(u, magnitude) == IF u # <<>> /\ Head(u) = "-" THEN -magnitude ELSE magnitude

TextValue(u) == SignedValue(u, LiteralValue(Unsigned(u), DotAt(Unsigned(u))))

FloatValue(v) == IF v.k \in {"num", "bool"} THEN 100 * v.n ELSE TextValue(Strip(v.s))

\* The number of tenths a reported percentage stands for: "83.3%" is 833,
\* "0%" is 0.
\* The number of tenths a reported percentage stands for: "83.3%" is 833,
\* "0%" is 0.
PercentTenths(t) == TextValue(SubSeq(t, 1, Len(t) - 1)) \div 10

SeqMax(q) == CHOOSE x \in {q[i] : i \in 1..Len(q)} : \A j \in 1..Len(q) : q[j] <= x
SeqMin(q) == CHOOSE x \in {q[i] : i \in 1..Len(q)} : \A j \in 1..Len(q) : x <= q[j]

\* The values of q in first-encountered order, each once.
RECURSIVE Distinct(_)
Distinct(q) ==
    IF q = <<>> THEN <<>>
    ELSE LET init == Distinct(SubSeq(q, 1, Len(q) - 1))
             x == q[Len(q)]
         IN IF \E i \in 1..Len(init) : init[i] = x THEN init ELSE Append(init, x)

Occurrences(q, x) == Cardinality({i \in 1..Len(q) : q[i] = x})

\* Counter(q).most_common(): <<element, count>> pairs by descending count,
\* equal counts in first-encountered order (a stable sort of the Counter).
RECURSIVE SortByCount(_, _)
SortByCount(keys, q) ==
    IF keys = <<>> THEN <<>>
    ELSE LET best == CHOOSE i \in 1..Len(keys) :
                        /\ \A j \in 1..Len(keys) :
                              Occurrences(q, keys[j]) <= Occurrences(q, keys[i])
                        /\ \A j \in 1..(i - 1) :
                              Occurrences(q, keys[j]) < Occurrences(q, keys[i])
             rest == [j \in 1..(Len(keys) - 1) |->
                        IF j < best THEN keys[j] ELSE keys[j + 1]]
         IN <<(<<keys[best], Occurrences(q, keys[best])>>)>> \o SortByCount(rest, q)

\* Variant: the counter is not sorted; the elements stay in first-encountered
\* order.
most_common_unsorted(q) ==
    [i \in 1..Len(Distinct(q)) |-> <<Distinct(q)[i], Occurrences(q, Distinct(q)[i])>>]

most_common(q) == SortByCount(Distinct(q), q)

RECURSIVE Sorted(_)
Sorted(q) ==
    IF q = <<>> THEN <<>>
    ELSE LET m == SeqMin(q)
             at == CHOOSE i \in 1..Len(q) : q[i] = m
         IN <<m>> \o Sorted([j \in 1..(Len(q) - 1) |-> IF j < at THEN q[j] ELSE q[j + 1]])

(***************************************************************************)
(* analyze_numeric_column.  Floats are kept in hundredths.                 *)
(***************************************************************************)
\* Variant: a value that does not convert counts as 0 instead of being skipped.
NumericValuesZeroFilled(vs) ==
    [i \in 1..Len(vs) |-> IF FloatOk(vs[i]) THEN FloatValue(vs[i]) ELSE 0]

\* Variant: only values that are numbers already are taken; texts are skipped.
NumericValuesNumbersOnly(vs) ==
    LET ok == SelectSeq(vs, LAMBDA v : v.k = "num")
    IN [i \in 1..Len(ok) |-> FloatValue(ok[i])]

\* numeric_values: float(value) of the values that convert, in order.
NumericValues(vs) ==
    LET ok == SelectSeq(vs, FloatOk)
    IN [i \in 1..Len(ok) |-> FloatValue(ok[i])]

\* round(statistics.mean(xs), 2)
MeanRounded(xs) == RoundHalfEven(SumSeq(xs), Len(xs))

\* round(statistics.median(xs), 2)
MedianRounded(xs) ==
    LET srt == Sorted(xs)
        n == Len(xs)
    IN IF n % 2 = 1 THEN srt[(n + 1) \div 2]
       ELSE RoundHalfEven(srt[n \div 2] + srt[(n \div 2) + 1], 2)

\* statistics.mode raises StatisticsError only for no data; from Python 3.8
\* (setup.py requires >= 3.8) it returns the first of the most frequent values.
safe_mode(xs) ==
    IF xs = <<>> THEN MeanRounded(xs) ELSE most_common(xs)[1][1]

\* Variant: the population standard deviation (statistics.pstdev).
StdevRoundedPopulation(xs) ==
    LET n == Len(xs)
        ss == n * SumSeq([i \in 1..n |-> xs[i] * xs[i]]) - SumSeq(xs) * SumSeq(xs)
        d == n * n
    IN CHOOSE r \in 0..(SeqMax(xs) - SeqMin(xs) + 1) :
          /\ (2 * r - 1) * (2 * r - 1) * d <= 4 * ss \/ r = 0
          /\ 4 * ss < (2 * r + 1) * (2 * r + 1) * d

\* round(statistics.stdev(xs), 2): the sample standard deviation.
StdevRounded(xs) ==
    LET n == Len(xs)
        ss == n * SumSeq([i \in 1..n |-> xs[i] * xs[i]]) - SumSeq(xs) * SumSeq(xs)
        d == n * (n - 1)
    IN CHOOSE r \in 0..(SeqMax(xs) - SeqMin(xs) + 1) :
          /\ (2 * r - 1) * (2 * r - 1) * d <= 4 * ss \/ r = 0
          /\ 4 * ss < (2 * r + 1) * (2 * r + 1) * d

\* The dict analyze_numeric_column returns for numeric_values.
NumericStatistics(numeric_values) ==
    IF numeric_values = <<>>
    THEN [error |-> "No valid numeric values found"]
    ELSE [mean |-> MeanRounded(numeric_values),
          median |-> MedianRounded(numeric_values),
          mode |-> safe_mode(numeric_values),
          std_dev |-> IF Len(numeric_values) > 1
                      THEN StdevRounded(numeric_values) ELSE 0,
          min_value |-> SeqMin(numeric_values),
          max_value |-> SeqMax(numeric_values),
          range |-> SeqMax(numeric_values) - SeqMin(numeric_values)]

analyze_numeric_column(vs) == NumericStatistics(NumericValues(vs))

(***************************************************************************)
(* analyze_categorical_column                                              *)
(***************************************************************************)
StrAll(vs) == [i \in 1..Len(vs) |-> Str(vs[i])]

\* Variant: the percentage is cut to one decimal instead of rounded.
CategoryPercentageTruncated(count, total_count) == (count * 1000) \div total_count

\* round((count / total_count) * 100, 1), in tenths.
CategoryPercentage(count, total_count) == RoundHalfEven(count * 1000, total_count)

\* frequency_analysis, in insertion order: one entry per category.
FrequencyAnalysis(frequency_counter, total_count) ==
    [i \in 1..Len(frequency_counter) |->
        [category |-> frequency_counter[i][1],
         count |-> frequency_counter[i][2],
         percentage |->
             PercentStr(CategoryPercentage(frequency_counter[i][2], total_count))]]

\* Variant: most_common is the last entry of most_common() instead of the first.
CategoricalStatisticsLeastCommon(frequency_counter, total_count) ==
    [most_common |-> IF frequency_counter # <<>>
                     THEN frequency_counter[Len(frequency_counter)] ELSE <<>>,
     category_count |-> Len(frequency_counter),
     frequency_distribution |-> FrequencyAnalysis(frequency_counter, total_count)]

\* The dict analyze_categorical_column returns; frequency_counter is
\* Counter(str(v) for v in values) in most_common() order.
CategoricalStatistics(frequency_counter, total_count) ==
    [most_common |-> IF frequency_counter # <<>>
                     THEN frequency_counter[1] ELSE <<>>,
     category_count |-> Len(frequency_counter),
     frequency_distribution |-> FrequencyAnalysis(frequency_counter, total_count)]

analyze_categorical_column(vs) ==
    CategoricalStatistics(most_common(StrAll(vs)), Len(vs))

(***************************************************************************)
(* analyze_text_column                                                     *)
(***************************************************************************)
\* len(text.split())
WordCount(t) ==
    Cardinality({i \in 1..Len(t) :
        /\ t[i] \notin Whitespace
        /\ (i = 1 \/ t[i - 1] \in Whitespace)})

\* The dict analyze_text_column returns for the lengths and word counts of
\* the non-empty values.
TextStatistics(lengths, word_counts) ==
    IF lengths = <<>>
    THEN [error |-> "No text values found"]
    ELSE [average_length |-> RoundHalfEven(10 * SumSeq(lengths), Len(lengths)),
          average_word_count |->
              RoundHalfEven(10 * SumSeq(word_counts), Len(word_counts)),
          shortest_response |-> SeqMin(lengths),
          longest_response |-> SeqMax(lengths),
          total_words |-> SumSeq(word_counts)]

Lengths(text_values) == [i \in 1..Len(text_values) |-> Len(text_values[i])]
WordCounts(text_values) == [i \in 1..Len(text_values) |-> WordCount(text_values[i])]
TextStatisticsOf(text_values) == TextStatistics(Lengths(text_values), WordCounts(text_values))

analyze_text_column(vs) == TextStatisticsOf(StrAll(SelectSeq(vs, Truthy)))

(***************************************************************************)
(* analyze_column                                                          *)
(***************************************************************************)
\* Variant: the last branch is an else, so an unknown column is analysed as text.
TypeSpecificElse(data_type, vs) ==
    CASE data_type = "numeric" -> analyze_numeric_column(vs)
      [] data_type = "categorical" -> analyze_categorical_column(vs)
      [] OTHER -> analyze_text_column(vs)

\* The type-specific analysis selected by the inferred type.
TypeSpecific(data_type, vs) ==
    CASE data_type = "numeric" -> analyze_numeric_column(vs)
      [] data_type = "categorical" -> analyze_categorical_column(vs)
      [] data_type = "text" -> analyze_text_column(vs)
      [] OTHER -> EmptyDict

\* analysis.update(...) with the analysis of the inferred type.
WithTypeSpecific(analysis, vs) == Update(analysis, TypeSpecific(analysis.data_type, vs))

analyze_column(column_name, vs) ==
    WithTypeSpecific([name |-> column_name,
                      total_values |-> Len(vs),
                      unique_values |-> Cardinality({Str(vs[i]) : i \in 1..Len(vs)}),
                      data_type |-> determine_data_type(vs)], vs)

(***************************************************************************)
(* Datasets: a list of records, a record a function from its keys.         *)
(***************************************************************************)
\* record.get(column)
Get(record, column) == IF column \in DOMAIN record THEN record[column] ELSE Null

\* data[0].keys()
FirstKeys(d) == DOMAIN d[1]

\* Variant: the lookup stores the default under a key the record lacks
\* (record.setdefault(column)).
RecordAfterSetdefault(record, columns) ==
    [c \in (DOMAIN record) \cup columns |-> Get(record, c)]

\* The record after record.get(column) for every column of columns: dict.get
\* returns None for a key the record lacks and stores nothing.
RecordAfterGet(record, columns) == record

\* The caller's list after a pass that looks every column of the first record
\* up in every record; no method assigns to the list or to a record.
DataAfterReads(d) ==
    IF d = <<>> THEN d
    ELSE [i \in 1..Len(d) |-> RecordAfterGet(d[i], FirstKeys(d))]

\* [record.get(column) for record in data if record.get(column) is not None]
ColumnValues(d, column) ==
    LET present == SelectSeq(d, LAMBDA r : ~IsNone(Get(r, column)))
    IN [i \in 1..Len(present) |-> Get(present[i], column)]

(***************************************************************************)
(* calculate_basic_statistics                                              *)
(***************************************************************************)
\* column_stats: a profile for each column of the first record that has at
\* least one value that is not None.
ColumnStats(d) ==
    LET analysed == {c \in FirstKeys(d) : ColumnValues(d, c) # <<>>}
    IN [c \in analysed |-> analyze_column(c, ColumnValues(d, c))]

calculate_basic_statistics(d) ==
    [total_responses |-> Len(d),
     response_rate |-> "100%",
     column_count |-> IF d # <<>> THEN Cardinality(FirstKeys(d)) ELSE 0,
     column_analysis |-> ColumnStats(d)]
(***************************************************************************)
(* analyze_response_patterns                                               *)
(***************************************************************************)
\* round((completed_count / total_responses) * 100, 1) per column, in tenths.
calculate_completion_rate(d) ==
    IF d = <<>> THEN EmptyDict
    ELSE [c \in FirstKeys(d) |->
            RoundHalfEven(
                1000 * Cardinality({i \in 1..Len(d) :
                           ~IsNone(Get(d[i], c)) /\ ~IsEmptyStr(Get(d[i], c))}),
                Len(d))]

\* The class defines no analyze_response_consistency: looking the attribute
\* up on self raises AttributeError, after completion_rate was computed.
analyze_response_patterns(d) ==
    LET completion_rate == calculate_completion_rate(d)
    IN Raised("AttributeError")

(***************************************************************************)
(* analyze_satisfaction_metrics                                            *)
(***************************************************************************)
satisfaction_keywords ==
    {<<"s", "a", "t", "i", "s", "f", "a", "c", "t", "i", "o", "n">>,
     <<"r", "a", "t", "i", "n", "g">>,
     <<"s", "c", "o", "r", "e">>,
     <<"r", "e", "c", "o", "m", "m", "e", "n", "d">>}

\* keyword in text
Contains(t, keyword) ==
    \E i \in 0..(Len(t) - Len(keyword)) : SubSeq(t, i + 1, i + Len(keyword)) = keyword

\* any(keyword in str(column).lower() for keyword in satisfaction_keywords)
IsSatisfactionColumn(column) ==
    \E keyword \in satisfaction_keywords : Contains(Lower(column), keyword)

\* categorize_satisfaction_score is defined after the return statement, as a
\* function local to analyze_satisfaction_column that is never created, and
\* the class has no method of that name: the numeric branch raises
\* AttributeError once round(mean) has been computed.
\* The categorical form of a satisfaction profile; responses is
\* Counter(str(v) for v in values) in most_common() order.
CategoricalSatisfaction(column_name, responses) ==
    [column |-> column_name,
     response_distribution |-> responses,
     most_common_response |-> IF responses # <<>> THEN responses[1] ELSE <<>>]

analyze_satisfaction_column(column_name, vs) ==
    IF NumericValues(vs) # <<>>
    THEN Raised("AttributeError")
    ELSE Returned(CategoricalSatisfaction(column_name, most_common(StrAll(vs))))

\* The satisfaction columns that have a value that is not None.
ScoredColumns(d) ==
    {c \in (IF d # <<>> THEN FirstKeys(d) ELSE {}) :
        IsSatisfactionColumn(c) /\ ColumnValues(d, c) # <<>>}

\* satisfaction_results, unless one of the column analyses raised.
Collected(outcome) ==
    IF \E c \in DOMAIN outcome : outcome[c].status = "raised"
    THEN Raised("AttributeError")
    ELSE Returned([c \in DOMAIN outcome |-> outcome[c].value])

analyze_satisfaction_metrics(d) ==
    Collected([c \in ScoredColumns(d) |->
                 analyze_satisfaction_column(c, ColumnValues(d, c))])

(***************************************************************************)
(* assess_data_quality                                                     *)
(***************************************************************************)
\* Variant: a rate on a boundary falls into the lower grade (> for >=).
calculate_quality_score_strict(completeness_rate) ==
    IF completeness_rate > 950 THEN "Excellent"
    ELSE IF completeness_rate > 850 THEN "Good"
    ELSE IF completeness_rate > 700 THEN "Fair"
    ELSE "Poor"

calculate_quality_score(completeness_rate) ==
    IF completeness_rate >= 950 THEN "Excellent"
    ELSE IF completeness_rate >= 850 THEN "Good"
    ELSE IF completeness_rate >= 700 THEN "Fair"
    ELSE "Poor"

\* Variant: the two tests exclude each other (if / elif, the lower first).
generate_quality_recommendations_exclusive(completeness_rate) ==
    (IF completeness_rate < 700
     THEN <<"Implement data validation rules during collection",
            "Consider making key questions required fields">>
     ELSE IF completeness_rate < 950
     THEN <<"Consider reviewing data collection methods to reduce missing values">>
     ELSE <<>>)
    \o <<"Regularly monitor data quality metrics">>

generate_quality_recommendations(completeness_rate) ==
    (IF completeness_rate < 950
     THEN <<"Consider reviewing data collection methods to reduce missing values">>
     ELSE <<>>)
    \o (IF completeness_rate < 700
        THEN <<"Implement data validation rules during collection",
               "Consider making key questions required fields">>
        ELSE <<>>)
    \o <<"Regularly monitor data quality metrics">>

\* Variant: every falsy value counts as missing ("if not value").
IsMissingFalsy(v) == ~Truthy(v)

\* value is None or value == ''
IsMissing(v) == IsNone(v) \/ IsEmptyStr(v)

\* missing_count: over every record, over every value the record holds.
MissingCount(d) ==
    SumSeq([i \in 1..Len(d) |-> Cardinality({c \in DOMAIN d[i] : IsMissing(d[i][c])})])

\* total_fields_count = total_records * total_fields
TotalFieldsCount(d) == Len(d) * Cardinality(FirstKeys(d))

\* Variant: the rate is cut to one decimal instead of rounded.
CompletenessRateTruncated(d) ==
    IF Len(d) * Cardinality(FirstKeys(d)) > 0
    THEN ((Len(d) * Cardinality(FirstKeys(d))
           - SumSeq([i \in 1..Len(d) |->
                 Cardinality({c \in DOMAIN d[i] : IsNone(d[i][c]) \/ IsEmptyStr(d[i][c])})]))
          * 1000) \div (Len(d) * Cardinality(FirstKeys(d)))
    ELSE 0

\* completeness_rate, in tenths; the integer 0 when there are no cells.
CompletenessRate(d) ==
    IF TotalFieldsCount(d) > 0
    THEN RoundHalfEven((TotalFieldsCount(d) - MissingCount(d)) * 1000,
                       TotalFieldsCount(d))
    ELSE 0

\* f"{completeness_rate}%": a float prints with its decimal, the int 0 as "0".
CompletenessText(d) ==
    IF TotalFieldsCount(d) > 0 THEN PercentStr(CompletenessRate(d)) ELSE <<"0", "%">>

assess_data_quality(d) ==
    IF d = <<>> THEN [error |-> "No data to assess"]
    ELSE [completeness_rate |-> CompletenessText(d),
          total_records |-> Len(d),
          missing_values |-> MissingCount(d),
          data_quality_score |-> calculate_quality_score(CompletenessRate(d)),
          recommendations |-> generate_quality_recommendations(CompletenessRate(d))]

(***************************************************************************)
(* analyze_dataset                                                         *)
(***************************************************************************)
\* self.analyze_demographics and self.analyze_text_responses are not defined
\* anywhere in the class: the attribute lookup raises AttributeError.
analyze_demographics(d) == Raised("AttributeError")
analyze_text_responses(d) == Raised("AttributeError")

SectionNames == <<"basic_statistics", "response_patterns", "satisfaction_analysis",
                  "demographic_breakdown", "text_analysis", "data_quality">>

\* The values of the dict display, in the order Python evaluates them.
Sections(d) ==
    <<Returned(calculate_basic_statistics(d)),
      analyze_response_patterns(d),
      analyze_satisfaction_metrics(d),
      analyze_demographics(d),
      analyze_text_responses(d),
      Returned(assess_data_quality(d))>>

\* What the dict display gives: the first section that raises ends it,
\* otherwise the dict of the sections.
Assembled(sec) ==
    IF \E i \in 1..Len(sec) : sec[i].status = "raised"
    THEN Raised(sec[CHOOSE i \in 1..Len(sec) :
                       /\ sec[i].status = "raised"
                       /\ \A j \in 1..(i - 1) : sec[j].status # "raised"].value)
    ELSE Returned([name \in {SectionNames[i] : i \in 1..Len(sec)} |->
                     sec[CHOOSE i \in 1..Len(sec) : SectionNames[i] = name].value])

\* Variant: no check for an empty dataset; data[0] then raises IndexError.
analyze_dataset_unguarded(d) ==
    IF d = <<>> THEN Raised("IndexError") ELSE Assembled(Sections(d))

analyze_dataset(d) ==
    IF d = <<>> THEN Returned([error |-> "No data provided for analysis"])
    ELSE Assembled(Sections(d))

\* Variant: the result is stored before the test for an empty dataset, so the
\* error result is kept on the instance too.
AnalysisResultsAfterAnyReturn(stored, d, outcome) ==
    IF outcome.status = "returned" THEN outcome.value ELSE stored

\* self.analysis_results after analyze_dataset(d) ended with outcome, stored
\* being its value before: the assignment is reached only when the dataset is
\* not empty and every section was computed.
AnalysisResultsAfter(stored, d, outcome) ==
    IF d # <<>> /\ outcome.status = "returned" THEN outcome.value ELSE stored

\* The instance field and the outcome after a call that ended with outcome.
CallEffect(stored, d, outcome) ==
    [analysis_results |-> AnalysisResultsAfter(stored, d, outcome),
     outcome |-> outcome]

\* Variant: a result kept on the instance is returned again instead of being
\* computed, and every returned result is kept.
AnalyzeDatasetMemoized(stored, d) ==
    IF DOMAIN stored # {}
    THEN [analysis_results |-> stored, outcome |-> Returned(stored)]
    ELSE [analysis_results |-> AnalysisResultsAfterAnyReturn(stored, d, analyze_dataset(d)),
          outcome |-> analyze_dataset(d)]

\* analyze_dataset(d) called on an instance whose analysis_results is stored:
\* the method does not read the field.
AnalyzeDatasetCall(stored, d) == CallEffect(stored, d, analyze_dataset(d))

(***************************************************************************)
(* Inputs                                                                  *)
(***************************************************************************)
ColAge == <<"a", "g", "e">>
ColRating == <<"r", "a", "t", "i", "n", "g">>
ColComment == <<"c", "o", "m", "m", "e", "n", "t">>
ColScore == <<"S", "c", "o", "r", "e">>

Yes == Text(<<"Y", "e", "s">>)
No == Text(<<"N", "o">>)
Maybe == Text(<<"M", "a", "y", "b", "e">>)
EmptyText == Text(<<>>)
LongText == Text([i \in 1..60 |-> IF i % 6 = 0 THEN " " ELSE "x"])
VeryLongText == Text([i \in 1..260 |-> IF i % 6 = 0 THEN " " ELSE "y"])

NotAvailable == Text(<<"N", "/", "A">>)

\* Values given to the type classifier: a number, a text that parses, a text
\* that nearly parses, the empty text, a long and a very long text.
ClassifierValues ==
    {Num(7), Text(<<" ", "1", "e", "3", " ">>), Text(<<"1", ".", "2", ".", "3">>),
     EmptyText, LongText, VeryLongText}

\* Values given to the categorical analysis: six different textual forms.
CategoryOrder == <<Yes, No, Maybe, EmptyText, Num(7), NotAvailable>>
CategoryValues == {CategoryOrder[i] : i \in 1..Len(CategoryOrder)}

ListsOf(S, n) == UNION {[1..m -> S] : m \in 0..n}

\* The lists of at most n values, taken from the k-th category on, in which
\* equal values are adjacent: every combination of counts.
RECURSIVE GroupedLists(_, _)
GroupedLists(k, n) ==
    IF k > Len(CategoryOrder) THEN {<<>>}
    ELSE UNION {{[i \in 1..c |-> CategoryOrder[k]] \o rest :
                    rest \in GroupedLists(k + 1, n - c)} : c \in 0..n}

CategoryLists ==
    GroupedLists(1, MaxCategoryValues) \cup ListsOf(CategoryValues, MaxOrderedValues)

\* The ratings of scenario A: 9, 7, 5, 3, 10.
ScenarioA == <<Num(9), Num(7), Num(5), Num(3), Num(10)>>

\* Value lists given to the satisfaction analysis: numbers, a text that
\* parses as a number, texts that do not.
SatisfactionValues == {Num(9), Num(4), Text(<<"7">>), Yes, No}
SatisfactionLists ==
    {ScenarioA}
        \cup {vs \in ListsOf(SatisfactionValues, MaxSatisfactionValues) : vs # <<>>}

\* Value lists given to analyze_column: numbers, a text that is a number, the
\* empty text and a long text.
ProfileValues == {Num(7), Num(5), Text(<<"4">>), EmptyText, LongText}

\* Value lists given to analyze_numeric_column: numbers, texts that convert,
\* a text that does not, and None.
NumericPool == {Num(7), Num(5), Text(<<"4">>), Text(<<" ", "2", ".", "5", " ">>), Yes, Null}

\* Records whose key sets differ from one record to the next.
RaggedRecords ==
    UNION {[S -> {Null, EmptyText, Num(0)}] : S \in SUBSET {ColAge, ColRating}}

\* Records of four fields, three of them answered or missing.
SurveyRecords ==
    {[c \in {ColAge, ColRating, ColComment, ColScore} |->
        CASE c = ColAge -> a [] c = ColRating -> r
          [] c = ColComment -> t [] OTHER -> Yes] :
     a \in {Num(30), Null}, r \in {Num(9), EmptyText}, t \in {LongText, EmptyText}}

\* Datasets of one column: n records, the first k of them without an answer.
TallDatasets ==
    {[i \in 1..n |-> [c \in {ColAge} |-> IF i <= k THEN Null ELSE Num(3)]] :
        n \in 1..MaxTallRecords, k \in 0..MaxTallRecords}

Datasets ==
    ListsOf(RaggedRecords, MaxRaggedRecords) \cup ListsOf(SurveyRecords, MaxRecords)
        \cup TallDatasets

NoResult == [status |-> "none", value |-> <<>>]

\* Datasets given to an engine that is called again and again.
SessionRecords ==
    {[c \in {ColAge} |-> Num(30)], [c \in {ColRating} |-> Yes]}
SessionDatasets == ListsOf(SessionRecords, MaxSessionRecords)

Instances == {1, 2}

\* An instance after __init__, not called yet.
FreshEngine ==
    [analysis_results |-> EmptyDict, data |-> <<>>, result |-> NoResult, calls |-> 0]

\* A field of the application: None, a list or a dict.
None == [k |-> "none", items |-> <<>>]
List(d) == [k |-> "list", items |-> d]
Dict(d) == [k |-> "dict", items |-> d]

\* SurveyDataApp.__init__: no dataset, no results, its own fresh analyzer.
FreshApp ==
    [current_dataset |-> None, analysis_results |-> None,
     analyzer |-> [analysis_results |-> EmptyDict], running |-> FALSE]

\* Nothing done yet.  choice is the menu choice served last, invoked_on the
\* dataset it handed to the analyzer, written the results it wrote to a file
\* and written_from the dataset they were computed from; results_from is the
\* dataset the stored results were computed from.
NoLog == [choice |-> "none", invoked_on |-> None, results_from |-> None,
          written |-> None, written_from |-> None]

ColRecordId == <<"r", "e", "c", "o", "r", "d", "_", "i", "d">>
ColIsValid == <<"i", "s", "_", "v", "a", "l", "i", "d">>

\* The rows of a CSV file with the one column age; an empty cell reads as
\* NaN.
CsvAges == {Num(30), Num(41), Null}
CsvFiles == ListsOf(CsvAges, MaxCsvRecords) \ {<<>>}

\* clean_record: the cell under its cleaned name, NaN as None, and the two
\* tags record_id and is_valid.
clean_record(age, record_num) ==
    [c \in {ColAge, ColRecordId, ColIsValid} |->
        CASE c = ColAge -> age [] c = ColRecordId -> Num(record_num) [] OTHER -> Bool(TRUE)]

\* is_valid_record: at least half of the data fields, and at least one, hold
\* a value.
is_valid_record(record) ==
    LET data_fields == DOMAIN record \ {ColRecordId, ColIsValid}
        non_null_count == Cardinality({c \in data_fields : record[c] # Null})
        half == Cardinality(data_fields) \div 2
        min_required == IF half > 1 THEN half ELSE 1
    IN  non_null_count >= min_required

\* validate_survey_data: the cleaned records that are valid, numbered by
\* their row; <<>> stands for the ValueError raised when none is.
validate_survey_data(rows) ==
    SelectSeq([i \in DOMAIN rows |-> clean_record(rows[i], i)], is_valid_record)

\* What a manual import builds: rows of typed texts under the typed headers,
\* no row when 'done' is typed at once.
ManualRecords == {[c \in {ColAge} |-> Text(<<"3", "0">>)], [c \in {ColAge} |-> EmptyText]}
ManualDatasets == ListsOf(ManualRecords, MaxManualRows)

DatasetOps == {"analyze_dataset", "calculate_basic_statistics", "assess_data_quality",
               "calculate_completion_rate", "analyze_satisfaction_metrics"}

(***************************************************************************)
(* The engine: one instance, one call.                                     *)
(***************************************************************************)
\* __init__, then a caller about to call one operation on a dataset.
Init ==
    /\ analysis_results = EmptyDict
    /\ numeric_threshold = DefaultNumericThreshold
    /\ op \in DatasetOps
    /\ data \in Datasets
    /\ values = <<>>
    /\ pc = "call"
    /\ result = NoResult
    /\ engines = [i \in Instances |-> FreshEngine]
    /\ app = FreshApp
    /\ log = NoLog

AnalyzeDataset ==
    /\ pc = "call" /\ op = "analyze_dataset"
    /\ result' = analyze_dataset(data)
    /\ analysis_results' = AnalysisResultsAfter(analysis_results, data, result')
    /\ data' = DataAfterReads(data)
    /\ pc' = "done"
    /\ UNCHANGED <<values, numeric_threshold, op, engines, app, log>>

\* data[0] of an empty list raises IndexError.
CalculateBasicStatistics ==
    /\ pc = "call" /\ op = "calculate_basic_statistics"
    /\ result' = IF data = <<>> THEN Raised("IndexError")
                 ELSE Returned(calculate_basic_statistics(data))
    /\ data' = DataAfterReads(data)
    /\ pc' = "done"
    /\ UNCHANGED <<values, analysis_results, numeric_threshold, op, engines, app, log>>

AssessDataQuality ==
    /\ pc = "call" /\ op = "assess_data_quality"
    /\ result' = Returned(assess_data_quality(data))
    /\ pc' = "done"
    /\ UNCHANGED <<data, values, analysis_results, numeric_threshold, op, engines, app, log>>

CalculateCompletionRate ==
    /\ pc = "call" /\ op = "calculate_completion_rate"
    /\ result' = Returned(calculate_completion_rate(data))
    /\ data' = DataAfterReads(data)
    /\ pc' = "done"
    /\ UNCHANGED <<values, analysis_results, numeric_threshold, op, engines, app, log>>

AnalyzeSatisfactionMetrics ==
    /\ pc = "call" /\ op = "analyze_satisfaction_metrics"
    /\ result' = analyze_satisfaction_metrics(data)
    /\ data' = DataAfterReads(data)
    /\ pc' = "done"
    /\ UNCHANGED <<values, analysis_results, numeric_threshold, op, engines, app, log>>

Next ==
    \/ AnalyzeDataset
    \/ CalculateBasicStatistics
    \/ AssessDataQuality
    \/ CalculateCompletionRate
    \/ AnalyzeSatisfactionMetrics

Spec == Init /\ [][Next]_vars

(***************************************************************************)
(* The per-column operations, called on a list of values.                  *)
(***************************************************************************)
InitColumn ==
    /\ analysis_results = EmptyDict
    /\ numeric_threshold = DefaultNumericThreshold
    /\ data = <<>>
    /\ \/ op = "determine_data_type" /\ values \in ListsOf(ClassifierValues, MaxValues)
       \/ op = "analyze_categorical_column"
          /\ values \in CategoryLists
       \/ op = "analyze_satisfaction_column"
          /\ values \in SatisfactionLists
    /\ pc = "call"
    /\ result = NoResult
    /\ engines = [i \in Instances |-> FreshEngine]
    /\ app = FreshApp
    /\ log = NoLog

DetermineDataType ==
    /\ pc = "call" /\ op = "determine_data_type"
    /\ result' = Returned(determine_data_type(values))
    /\ pc' = "done"
    /\ UNCHANGED <<data, values, analysis_results, numeric_threshold, op, engines, app, log>>

AnalyzeCategoricalColumn ==
    /\ pc = "call" /\ op = "analyze_categorical_column"
    /\ result' = Returned(analyze_categorical_column(values))
    /\ pc' = "done"
    /\ UNCHANGED <<data, values, analysis_results, numeric_threshold, op, engines, app, log>>

AnalyzeSatisfactionColumn ==
    /\ pc = "call" /\ op = "analyze_satisfaction_column"
    /\ \E column_name \in {ColRating, ColScore} :
          result' = analyze_satisfaction_column(column_name, values)
    /\ pc' = "done"
    /\ UNCHANGED <<data, values, analysis_results, numeric_threshold, op, engines, app, log>>

NextColumn == DetermineDataType \/ AnalyzeCategoricalColumn \/ AnalyzeSatisfactionColumn

SpecColumn == InitColumn /\ [][NextColumn]_vars

(***************************************************************************)
(* The column profile and the numeric analysis, called on a list of values.*)
(***************************************************************************)
InitProfile ==
    /\ analysis_results = EmptyDict
    /\ numeric_threshold = DefaultNumericThreshold
    /\ data = <<>>
    /\ \/ op = "analyze_column" /\ values \in ListsOf(ProfileValues, MaxProfileValues)
       \/ op = "analyze_numeric_column"
          /\ values \in ListsOf(NumericPool, MaxNumericValues)
    /\ pc = "call"
    /\ result = NoResult
    /\ engines = [i \in Instances |-> FreshEngine]
    /\ app = FreshApp
    /\ log = NoLog

AnalyzeColumn ==
    /\ pc = "call" /\ op = "analyze_column"
    /\ \E column_name \in {ColAge, ColComment} :
          result' = Returned(analyze_column(column_name, values))
    /\ pc' = "done"
    /\ UNCHANGED <<data, values, analysis_results, numeric_threshold, op, engines, app, log>>

AnalyzeNumericColumn ==
    /\ pc = "call" /\ op = "analyze_numeric_column"
    /\ result' = Returned(analyze_numeric_column(values))
    /\ pc' = "done"
    /\ UNCHANGED <<data, values, analysis_results, numeric_threshold, op, engines, app, log>>

NextProfile == AnalyzeColumn \/ AnalyzeNumericColumn

SpecProfile == InitProfile /\ [][NextProfile]_vars

(***************************************************************************)
(* Two engine instances of the same configuration, each called repeatedly. *)
(***************************************************************************)
InitSession ==
    /\ analysis_results = EmptyDict
    /\ numeric_threshold = DefaultNumericThreshold
    /\ data = <<>>
    /\ values = <<>>
    /\ op = "analyze_dataset"
    /\ pc = "call"
    /\ result = NoResult
    /\ engines = [i \in Instances |-> FreshEngine]
    /\ app = FreshApp
    /\ log = NoLog

\* The instance after one more call of analyze_dataset(d) that had effect.
EngineAfter(engine, d, effect) ==
    [analysis_results |-> effect.analysis_results,
     data |-> d,
     result |-> effect.outcome,
     calls |-> engine.calls + 1]

SessionAnalyzeDataset ==
    \E i \in Instances : \E d \in SessionDatasets :
        /\ engines[i].calls < MaxCalls
        /\ engines' = [engines EXCEPT ![i] =
                          EngineAfter(@, d, AnalyzeDatasetCall(@.analysis_results, d))]
        /\ UNCHANGED <<data, values, analysis_results, numeric_threshold, op, pc,
                       result, app, log>>

NextSession == SessionAnalyzeDataset

SpecSession == InitSession /\ [][NextSession]_vars

(***************************************************************************)
(* The interactive application (main.py): one action per menu choice.      *)
(***************************************************************************)
InitApp ==
    /\ analysis_results = EmptyDict
    /\ numeric_threshold = DefaultNumericThreshold
    /\ data = <<>>
    /\ values = <<>>
    /\ op = "run"
    /\ pc = "call"
    /\ result = NoResult
    /\ engines = [i \in Instances |-> FreshEngine]
    /\ app = [FreshApp EXCEPT !.running = TRUE]
    /\ log = NoLog

\* The log after a menu choice that called no analyzer and wrote no file.
Served(choice) ==
    [log EXCEPT !.choice = choice, !.invoked_on = None,
                !.written = None, !.written_from = None]

AppUnchanged == UNCHANGED <<data, values, analysis_results, numeric_threshold, op, pc,
                            result, engines>>

\* The application after load_csv: the valid records replace the dataset;
\* with none load_csv raises, which is caught, and the dataset stays.
AppAfterLoad(validated_data) ==
    IF validated_data = <<>> THEN app
    ELSE [app EXCEPT !.current_dataset = List(validated_data)]

\* import_from_csv: no path typed, or a missing or empty file (load_csv
\* raises, caught), or the file is loaded.  The stored results stay.
ImportFromCsv ==
    /\ app.running
    /\ \/ app' = app
       \/ \E rows \in CsvFiles :
             app' = AppAfterLoad(validate_survey_data(rows))
    /\ log' = Served("import_from_csv")
    /\ AppUnchanged

\* import_manual_data: the typed rows replace the dataset, also when there is
\* none.  The stored results stay.
ImportManualData ==
    /\ app.running
    /\ \E d \in ManualDatasets : app' = [app EXCEPT !.current_dataset = List(d)]
    /\ log' = Served("import_manual_data")
    /\ AppUnchanged

\* load_sample_data: DataManager has no create_sample_data (its method is
\* create_sample_dataset); the AttributeError is caught and nothing changes.
LoadSampleData ==
    /\ app.running
    /\ app' = app
    /\ log' = Served("load_sample_data")
    /\ AppUnchanged

\* Variant: only a missing dataset is turned away, an empty list is analysed.
NoDataLoadedNoneOnly(current_dataset) == current_dataset.k = "none"

\* not self.current_dataset or ... len(self.current_dataset) == 0
NoDataLoaded(current_dataset) ==
    current_dataset.k = "none" \/ current_dataset.items = <<>>

\* The application after analyzer.analyze_dataset had effect: a returned
\* result is stored, a raised exception is caught and reported.
AppAfterAnalysis(effect) ==
    [app EXCEPT !.analyzer = [analysis_results |-> effect.analysis_results],
                !.analysis_results =
                    IF effect.outcome.status = "returned"
                    THEN Dict(effect.outcome.value) ELSE @]

LogAfterAnalysis(effect) ==
    [choice |-> "analyze_data",
     invoked_on |-> app.current_dataset,
     results_from |-> IF effect.outcome.status = "returned"
                      THEN app.current_dataset ELSE log.results_from,
     written |-> None,
     written_from |-> None]

AnalyzeData ==
    /\ app.running
    /\ IF NoDataLoaded(app.current_dataset)
       THEN app' = app /\ log' = Served("analyze_data")
       ELSE \E effect \in {AnalyzeDatasetCall(app.analyzer.analysis_results,
                                               app.current_dataset.items)} :
               /\ app' = AppAfterAnalysis(effect)
               /\ log' = LogAfterAnalysis(effect)
    /\ AppUnchanged

\* not self.analysis_results: None or an empty dict.
NoResults(stored) == stored.k = "none" \/ DOMAIN stored.items = {}

\* visualize_data: charts are drawn from the stored results, if any.
VisualizeData ==
    /\ app.running
    /\ app' = app
    /\ log' = Served("visualize_data")
    /\ AppUnchanged

\* export_results: without stored results nothing is written; with them the
\* typed path may be empty (nothing written) or the results are written.
ExportResults ==
    /\ app.running
    /\ app' = app
    /\ \/ log' = Served("export_results")
       \/ /\ ~NoResults(app.analysis_results)
          /\ log' = [log EXCEPT !.choice = "export_results", !.invoked_on = None,
                                !.written = app.analysis_results,
                                !.written_from = log.results_from]
    /\ AppUnchanged

\* Choice 5: SurveyDataApp has no show_data_summary; the AttributeError is
\* caught by run(), which exits the application.
ShowDataSummary ==
    /\ app.running
    /\ app' = [app EXCEPT !.running = FALSE]
    /\ log' = Served("show_data_summary")
    /\ AppUnchanged

ExitApplication ==
    /\ app.running
    /\ app' = [app EXCEPT !.running = FALSE]
    /\ log' = Served("exit_application")
    /\ AppUnchanged

NextApp ==
    \/ ImportFromCsv
    \/ ImportManualData
    \/ LoadSampleData
    \/ AnalyzeData
    \/ VisualizeData
    \/ ExportResults
    \/ ShowDataSummary
    \/ ExitApplication

SpecApp == InitApp /\ [][NextApp]_vars

(***************************************************************************)
(* Properties                                                              *)
(***************************************************************************)
Abs(x) == IF x < 0 THEN -x ELSE x

Done(name) == op = name /\ pc = "done"

\* C1: for every non-empty dataset analyze_dataset returns a result whose
\* basic_statistics.column_analysis has a profile for every column key of
\* the first record, columns that are null in every record included.
C1_EveryColumnProfiled ==
    (Done("analyze_dataset") /\ data # <<>>) =>
        /\ result.status = "returned"
        /\ \A c \in FirstKeys(data) :
              c \in DOMAIN result.value.basic_statistics.column_analysis

\* C2: analyze_dataset on a dataset of zero records does not raise; it returns
\* a result that has an 'error' entry and no analysis section.
C2_EmptyDatasetReturnsError ==
    (Done("analyze_dataset") /\ data = <<>>) =>
        /\ result.status = "returned"
        /\ DOMAIN result.value = {"error"}

C2_Witness ==
    Done("analyze_dataset") /\ data = <<>> /\ "error" \in DOMAIN result.value

\* C3: for every non-empty dataset analyze_dataset never raises; it returns a
\* result in which every section is produced.
C3_NeverRaises ==
    (Done("analyze_dataset") /\ data # <<>>) =>
        /\ result.status = "returned"
        /\ {"basic_statistics", "response_patterns",
            "satisfaction_analysis", "data_quality"} \subseteq DOMAIN result.value

\* The values of vs whose textual form parses as a number.
Parsed(vs) == SelectSeq(vs, LAMBDA v : ParsesAsFloat(Str(v)))

\* The summed textual length of the values that fail the parse.
FailedLength(vs) ==
    SumSeq([i \in 1..Len(vs) |->
              IF ParsesAsFloat(Str(vs[i])) THEN 0 ELSE Len(Str(vs[i]))])

\* C4: a non-empty value list in which the fraction of values that parse as a
\* number is at least the threshold is classified numeric, whatever the other
\* values are.
C4_NumericAtThreshold ==
    (/\ Done("determine_data_type")
     /\ values # <<>>
     /\ Len(Parsed(values)) * 100 >= numeric_threshold * Len(values))
    => result.value = "numeric"

\* Four of five values parse, the fifth is a very long text.
C4_Witness ==
    /\ Done("determine_data_type")
    /\ Len(values) = 5
    /\ Len(Parsed(values)) = 4
    /\ \E i \in 1..5 : values[i] = VeryLongText
    /\ result.value = "numeric"

\* C5: a non-empty value list whose numeric ratio is below the threshold is
\* classified text exactly when the summed length of the values that failed
\* the parse, divided by the count of all values, exceeds 50, and categorical
\* otherwise.
C5_TextOrCategorical ==
    (/\ Done("determine_data_type")
     /\ values # <<>>
     /\ Len(Parsed(values)) * 100 < numeric_threshold * Len(values))
    => result.value = IF FailedLength(values) > 50 * Len(values)
                      THEN "text" ELSE "categorical"

\* A list that the average over the failed values alone would call text.
C5_Witness ==
    /\ Done("determine_data_type")
    /\ values # <<>>
    /\ Len(Parsed(values)) * 100 < numeric_threshold * Len(values)
    /\ FailedLength(values) <= 50 * Len(values)
    /\ FailedLength(values) > 50 * (Len(values) - Len(Parsed(values)))
    /\ result.value = "categorical"

\* C6: a column whose values are all empty strings is classified unknown and
\* its profile carries no type-specific statistics.
C6_AllEmptyColumnUnknown ==
    (Done("calculate_basic_statistics") /\ data # <<>>) =>
        \A c \in FirstKeys(data) :
            (\A i \in 1..Len(data) : c \in DOMAIN data[i] /\ IsEmptyStr(data[i][c]))
            => /\ c \in DOMAIN result.value.column_analysis
               /\ result.value.column_analysis[c].data_type = "unknown"
               /\ DOMAIN result.value.column_analysis[c]
                     = {"name", "total_values", "unique_values", "data_type"}

\* The sum of the percentages reported in a frequency distribution, in tenths.
ReportedPercentageSum(dist) ==
    SumSeq([i \in 1..Len(dist) |-> PercentTenths(dist[i].percentage)])

\* C7 as stated: for a column classified categorical the reported percentages
\* sum to 100 within 0.1.
C7_SumWithinTenth ==
    (Done("analyze_categorical_column") /\ determine_data_type(values) = "categorical")
    => Abs(ReportedPercentageSum(result.value.frequency_distribution) - 1000) <= 1

\* C7 as amended: for a column classified categorical the reported
\* percentages sum to 100 within 0.05 per category.
C7_SumWithinHalfTenthPerCategory ==
    (Done("analyze_categorical_column") /\ determine_data_type(values) = "categorical")
    => 2 * Abs(ReportedPercentageSum(result.value.frequency_distribution) - 1000)
          <= result.value.category_count

\* Six categories of one value each: 6 x 16.7 = 100.2.
C7_Witness ==
    /\ Done("analyze_categorical_column")
    /\ determine_data_type(values) = "categorical"
    /\ result.value.category_count = 6
    /\ ReportedPercentageSum(result.value.frequency_distribution) = 1002

\* C8: for every non-empty dataset, equal key sets or not, the reported
\* completeness rate is within [0, 100].
C8_CompletenessInRange ==
    (Done("assess_data_quality") /\ data # <<>>) =>
        /\ 0 <= PercentTenths(result.value.completeness_rate)
        /\ PercentTenths(result.value.completeness_rate) <= 1000

\* No record holds a null or an empty text.
NoMissingField(d) ==
    \A i \in 1..Len(d) : \A c \in DOMAIN d[i] :
        d[i][c].k # "null" /\ ~(d[i][c].k = "text" /\ Len(d[i][c].s) = 0)

HundredPercent == <<"1", "0", "0", ".", "0", "%">>

\* C9 as stated: a non-empty dataset without a null or empty field has a
\* completeness rate of exactly 100 and no missing value.
C9_CompleteIsHundred ==
    (Done("assess_data_quality") /\ data # <<>> /\ NoMissingField(data)) =>
        /\ result.value.completeness_rate = HundredPercent
        /\ result.value.missing_values = 0

\* C9 as amended: a non-empty dataset whose first record has at least one
\* column and in which no record has a null or empty field has a completeness
\* rate of exactly 100 and no missing value.
C9_CompleteWithColumnsIsHundred ==
    (/\ Done("assess_data_quality")
     /\ data # <<>>
     /\ FirstKeys(data) # {}
     /\ NoMissingField(data))
    => /\ result.value.completeness_rate = HundredPercent
       /\ result.value.missing_values = 0

C9_Witness ==
    /\ Done("assess_data_quality")
    /\ Len(data) >= 2
    /\ Cardinality(FirstKeys(data)) = 4
    /\ NoMissingField(data)
    /\ result.value.completeness_rate = HundredPercent

\* The cells of a dataset that hold a null or an empty text.
MissingCells(d) ==
    {<<i, c>> \in (1..Len(d)) \X UNION {DOMAIN d[i] : i \in 1..Len(d)} :
        c \in DOMAIN d[i] /\ ~NoMissingField(<<[x \in {c} |-> d[i][c]]>>)}

\* Three records of four fields with two missing cells.
ScenarioE(d) ==
    /\ Len(d) = 3
    /\ \A i \in 1..3 : Cardinality(DOMAIN d[i]) = 4
    /\ Cardinality(MissingCells(d)) = 2

\* C10: the completeness rate is (total_cells - missing_cells) / total_cells
\* * 100 rounded to one decimal, with total_cells the number of records times
\* the number of columns, and 0 when total_cells is 0; three records of four
\* fields with two missing cells give 83.3 and the grade Fair.
C10_CompletenessFormula ==
    (Done("assess_data_quality") /\ data # <<>>) =>
        LET total_cells == Len(data) * Cardinality(DOMAIN data[1])
            missing_cells == Cardinality(MissingCells(data))
        IN /\ PercentTenths(result.value.completeness_rate) =
                 IF total_cells = 0 THEN 0
                 ELSE RoundHalfEven((total_cells - missing_cells) * 1000, total_cells)
           /\ result.value.missing_values = missing_cells
           /\ ScenarioE(data) =>
                 /\ result.value.completeness_rate = <<"8", "3", ".", "3", "%">>
                 /\ result.value.data_quality_score = "Fair"

C10_Witness ==
    /\ Done("assess_data_quality")
    /\ ScenarioE(data)
    /\ result.value.completeness_rate = <<"8", "3", ".", "3", "%">>

\* The cells of the columns of the first record in which a record has no
\* answer: the key is absent, or its value is null or the empty text.
UnansweredCells(d) ==
    {<<i, c>> \in (1..Len(d)) \X (DOMAIN d[1]) :
        \/ c \notin DOMAIN d[i]
        \/ d[i][c].k = "null"
        \/ d[i][c].k = "text" /\ Len(d[i][c].s) = 0}

\* C11: the columns are the keys of the first record, and a column absent
\* from a later record is missing for that record: it is one missing cell in
\* the missing-value count and the completeness rate of the quality
\* assessment, and it is not completed in that column's completion rate.
C11_AbsentCountsAsMissing ==
    /\ (Done("assess_data_quality") /\ data # <<>>) =>
          LET total_cells == Len(data) * Cardinality(DOMAIN data[1])
              missing_cells == Cardinality(UnansweredCells(data))
          IN /\ result.value.missing_values = missing_cells
             /\ total_cells > 0 =>
                   PercentTenths(result.value.completeness_rate) =
                       RoundHalfEven((total_cells - missing_cells) * 1000, total_cells)
    /\ (Done("calculate_completion_rate") /\ data # <<>>) =>
          /\ DOMAIN result.value = DOMAIN data[1]
          /\ \A c \in DOMAIN data[1] :
                result.value[c] =
                    RoundHalfEven(
                        1000 * (Len(data) - Cardinality({i \in 1..Len(data) :
                                                <<i, c>> \in UnansweredCells(data)})),
                        Len(data))

\* C12: the quality grade is decided by the reported completeness rate alone:
\* Excellent from 95, Good from 85 and below 95, Fair from 70 and below 85,
\* Poor below 70; every rate gets exactly one of the four grades.
C12_GradeByReportedRate ==
    (Done("assess_data_quality") /\ data # <<>>) =>
        LET rate == PercentTenths(result.value.completeness_rate)
            grade == result.value.data_quality_score
        IN /\ grade \in {"Excellent", "Good", "Fair", "Poor"}
           /\ grade = "Excellent" <=> rate >= 950
           /\ grade = "Good" <=> (rate >= 850 /\ rate < 950)
           /\ grade = "Fair" <=> (rate >= 700 /\ rate < 850)
           /\ grade = "Poor" <=> rate < 700

\* Nineteen of twenty cells answered: exactly 95.0, the lowest Excellent.
C12_Witness ==
    /\ Done("assess_data_quality")
    /\ Len(data) = 20
    /\ result.value.completeness_rate = <<"9", "5", ".", "0", "%">>
    /\ result.value.data_quality_score = "Excellent"

RecommendReview == "Consider reviewing data collection methods to reduce missing values"
RecommendValidation == "Implement data validation rules during collection"
RecommendRequired == "Consider making key questions required fields"
RecommendMonitor == "Regularly monitor data quality metrics"

\* C13: the recommendations are cumulative and ordered: a completeness below
\* 95 puts the review of collection methods first, a completeness below 70
\* adds validation rules and required fields after it, and the monitoring
\* recommendation is always there and always last; so the list is never empty,
\* grade Excellent gives the monitoring recommendation alone and grade Poor
\* gives all four.
C13_RecommendationsCumulative ==
    (Done("assess_data_quality") /\ data # <<>>) =>
        LET rate == PercentTenths(result.value.completeness_rate)
            recs == result.value.recommendations
        IN /\ recs # <<>>
           /\ recs[Len(recs)] = RecommendMonitor
           /\ recs = (IF rate < 950 THEN <<RecommendReview>> ELSE <<>>)
                     \o (IF rate < 700
                         THEN <<RecommendValidation, RecommendRequired>> ELSE <<>>)
                     \o <<RecommendMonitor>>
           /\ result.value.data_quality_score = "Excellent" => recs = <<RecommendMonitor>>
           /\ result.value.data_quality_score = "Poor" =>
                 recs = <<RecommendReview, RecommendValidation,
                          RecommendRequired, RecommendMonitor>>

\* A completeness below 70: all four, the review first.
C13_Witness ==
    /\ Done("assess_data_quality")
    /\ PercentTenths(result.value.completeness_rate) < 700
    /\ Len(result.value.recommendations) = 4
    /\ result.value.recommendations[1] = RecommendReview

\* The bucket of an average score given as sum / count.
SatisfactionBucket(sum, count) ==
    IF sum >= 8 * count THEN "High Satisfaction"
    ELSE IF sum >= 6 * count THEN "Moderate Satisfaction"
    ELSE IF sum >= 4 * count THEN "Low Satisfaction"
    ELSE "Poor Satisfaction"

\* The values of vs that convert to a number, as numbers in hundredths.
Coercible(vs) ==
    LET ok == SelectSeq(vs, LAMBDA v : v.k = "num" \/ (v.k = "text" /\ ParsesAsFloat(v.s)))
    IN [i \in 1..Len(ok) |-> FloatValue(ok[i])]

\* C14: for a satisfaction column with numeric values the analysis reports
\* the average score and the bucket of that average: High from 8, Moderate
\* from 6, Low from 4, Poor below; the ratings 9, 7, 5, 3, 10 give the average
\* 6.8 and Moderate Satisfaction.
C14_NumericSatisfactionBucket ==
    (Done("analyze_satisfaction_column") /\ Coercible(values) # <<>>) =>
        /\ result.status = "returned"
        /\ result.value.average_score =
               RoundHalfEven(SumSeq(Coercible(values)), Len(Coercible(values)))
        /\ result.value.satisfaction_level =
               SatisfactionBucket(SumSeq(Coercible(values)), 100 * Len(Coercible(values)))
        /\ values = ScenarioA =>
              /\ result.value.average_score = 680
              /\ result.value.satisfaction_level = "Moderate Satisfaction"

\* The name, in lower case, contains one of the four satisfaction keywords.
NamesSatisfaction(column) ==
    \E keyword \in {<<"s", "a", "t", "i", "s", "f", "a", "c", "t", "i", "o", "n">>,
                    <<"r", "a", "t", "i", "n", "g">>,
                    <<"s", "c", "o", "r", "e">>,
                    <<"r", "e", "c", "o", "m", "m", "e", "n", "d">>} :
        \E i \in 1..Len(column) : \E j \in i..Len(column) :
            Lower(SubSeq(column, i, j)) = keyword

\* C15: a column of the first record is in satisfaction_analysis exactly when
\* its name, compared without regard to case, contains satisfaction, rating,
\* score or recommend; no other column is scored.
C15_KeywordColumnsScored ==
    (Done("analyze_satisfaction_metrics") /\ data # <<>>) =>
        /\ result.status = "returned"
        /\ DOMAIN result.value = {c \in DOMAIN data[1] : NamesSatisfaction(c)}

\* C16: a satisfaction profile has exactly one of two forms: the numeric form
\* (average score, bucket, score distribution) when at least one value
\* converts to a number, the average taken over the values that convert;
\* otherwise the categorical form (response distribution and most common
\* response).
C16_ExactlyOneForm ==
    Done("analyze_satisfaction_column") =>
        /\ result.status = "returned"
        /\ IF Coercible(values) # <<>>
           THEN /\ DOMAIN result.value =
                      {"column", "average_score", "satisfaction_level", "distribution"}
                /\ result.value.average_score =
                      RoundHalfEven(SumSeq(Coercible(values)), Len(Coercible(values)))
           ELSE DOMAIN result.value =
                      {"column", "response_distribution", "most_common_response"}

ScenarioB == <<Yes, Yes, No, Maybe>>

\* C17: in the analysis of a categorical column each category is the textual
\* form of a value, its count is the number of values of that textual form,
\* its percentage is count / total * 100 rounded to one decimal and followed
\* by '%', and the most common category is the (label, count) pair of maximal
\* count; Yes, Yes, No, Maybe give Yes the count 2 and 50.0%, and most common
\* (Yes, 2).
C17_CategoryCounts ==
    Done("analyze_categorical_column") =>
        LET dist == result.value.frequency_distribution
            forms == {Str(values[i]) : i \in 1..Len(values)}
            top == result.value.most_common
        IN /\ {dist[j].category : j \in 1..Len(dist)} = forms
           /\ Len(dist) = Cardinality(forms)
           /\ \A j \in 1..Len(dist) :
                 /\ dist[j].count =
                       Cardinality({i \in 1..Len(values) : Str(values[i]) = dist[j].category})
                 /\ dist[j].percentage =
                       PercentStr(RoundHalfEven(dist[j].count * 1000, Len(values)))
           /\ values # <<>> =>
                 /\ \E j \in 1..Len(dist) : top = <<dist[j].category, dist[j].count>>
                 /\ \A j \in 1..Len(dist) : dist[j].count <= top[2]
           /\ values = ScenarioB =>
                 /\ \E j \in 1..Len(dist) :
                       /\ dist[j].category = <<"Y", "e", "s">>
                       /\ dist[j].count = 2
                       /\ dist[j].percentage = <<"5", "0", ".", "0", "%">>
                 /\ top = <<(<<"Y", "e", "s">>), 2>>

C17_Witness ==
    /\ Done("analyze_categorical_column")
    /\ values = ScenarioB
    /\ result.value.most_common = <<(<<"Y", "e", "s">>), 2>>
    /\ result.value.category_count = 3

\* The columns of the first record that the engine classifies numeric.
NumericColumns(d) ==
    {c \in DOMAIN d[1] : determine_data_type(ColumnValues(d, c)) = "numeric"}

\* C18: when the dataset has at least two numeric columns the result of
\* analyze_dataset has a correlation_analysis whose matrix over the numeric
\* columns is symmetric, has 1.0 on its diagonal and every coefficient within
\* [-1, 1] (coefficients in thousandths).
C18_CorrelationMatrix ==
    (/\ Done("analyze_dataset")
     /\ data # <<>>
     /\ Cardinality(NumericColumns(data)) >= 2)
    => /\ result.status = "returned"
       /\ "correlation_analysis" \in DOMAIN result.value
       /\ LET matrix == result.value.correlation_analysis.matrix
          IN \A a \in NumericColumns(data) : \A b \in NumericColumns(data) :
                /\ matrix[a][b] = matrix[b][a]
                /\ matrix[a][a] = 1000
                /\ matrix[a][b] >= -1000 /\ matrix[a][b] <= 1000

\* C19: for every non-empty dataset the result of analyze_dataset is a mapping
\* whose top-level keys are exactly basic_statistics, response_patterns,
\* satisfaction_analysis and data_quality, with correlation_analysis where it
\* applies; no other key, and none of the four missing.
C19_TopLevelKeys ==
    (Done("analyze_dataset") /\ data # <<>>) =>
        /\ result.status = "returned"
        /\ DOMAIN result.value \in
              {{"basic_statistics", "response_patterns",
                "satisfaction_analysis", "data_quality"},
               {"basic_statistics", "response_patterns",
                "satisfaction_analysis", "data_quality", "correlation_analysis"}}

\* C20: analyze_dataset and every analysis step it runs leave the caller's
\* dataset as it was: the same records, each with the same keys and values.
C20_DatasetUnchanged == [][data' = data]_vars

\* analyze_dataset ran on records of which the second lacks a column of the
\* first.
C20_Witness ==
    /\ Done("analyze_dataset")
    /\ Len(data) = 2
    /\ ~(DOMAIN data[1] \subseteq DOMAIN data[2])

BaseKeys == {"name", "total_values", "unique_values", "data_type"}
NumericKeys == {"mean", "median", "mode", "std_dev", "min_value", "max_value", "range"}
FrequencyKeys == {"most_common", "category_count", "frequency_distribution"}
TextKeys == {"average_length", "average_word_count", "shortest_response",
             "longest_response", "total_words"}

\* C23: in every profile analyze_column produces, the type-specific
\* statistics present are those of the inferred type only: numeric statistics
\* only for numeric, frequency statistics only for categorical, text
\* statistics only for text and none for unknown; name, total_values,
\* unique_values and data_type are always present.
C23_StatisticsMatchType ==
    Done("analyze_column") =>
        LET keys == DOMAIN result.value
            type == result.value.data_type
        IN /\ BaseKeys \subseteq keys
           /\ type \in {"numeric", "categorical", "text", "unknown"}
           /\ keys \cap NumericKeys # {} => type = "numeric"
           /\ keys \cap FrequencyKeys # {} => type = "categorical"
           /\ keys \cap TextKeys # {} => type = "text"
           /\ type = "unknown" => keys = BaseKeys

\* The profile of an empty value list.
C23_Witness ==
    /\ Done("analyze_column")
    /\ values = <<>>
    /\ result.value.data_type = "unknown"
    /\ DOMAIN result.value = BaseKeys

\* How often the most frequent number of xs occurs.
TopFrequency(xs) ==
    CHOOSE m \in 1..Len(xs) :
        /\ \E i \in 1..Len(xs) : Cardinality({j \in 1..Len(xs) : xs[j] = xs[i]}) = m
        /\ \A i \in 1..Len(xs) : Cardinality({j \in 1..Len(xs) : xs[j] = xs[i]}) <= m

\* Two or more different numbers of xs are the most frequent.
NoUniqueMode(xs) ==
    Cardinality({xs[i] : i \in {i \in 1..Len(xs) :
        Cardinality({j \in 1..Len(xs) : xs[j] = xs[i]}) = TopFrequency(xs)}}) >= 2

\* C24: in the numeric analysis, when the coerced values have no unique mode
\* (several values tie for the highest frequency, or all are distinct) the
\* reported mode is the mean rounded to two decimals, not one of the tied
\* values, and nothing is raised.
C24_ModeFallsBackToMean ==
    (/\ Done("analyze_numeric_column")
     /\ Coercible(values) # <<>>
     /\ NoUniqueMode(Coercible(values)))
    => /\ result.status = "returned"
       /\ result.value.mode =
             RoundHalfEven(SumSeq(Coercible(values)), Len(Coercible(values)))

\* Summed squares of n * x - sum(xs): n * n * (n - 1) times the sample variance.
ScaledSquares(xs) ==
    SumSeq([i \in 1..Len(xs) |->
              (Len(xs) * xs[i] - SumSeq(xs)) * (Len(xs) * xs[i] - SumSeq(xs))])

\* C25: in the numeric analysis the standard deviation is 0 when fewer than
\* two values remain after coercion, and the analysis returns; with two or
\* more values it is the sample standard deviation rounded to two decimals
\* (r is within half a hundredth of the square root of the sample variance).
C25_StandardDeviation ==
    (Done("analyze_numeric_column") /\ Coercible(values) # <<>>) =>
        LET xs == Coercible(values)
            n == Len(xs)
            r == result.value.std_dev
        IN /\ result.status = "returned"
           /\ n < 2 => r = 0
           /\ n >= 2 =>
                 /\ r >= 0
                 /\ r = 0 \/ (2 * r - 1) * (2 * r - 1) * n * n * (n - 1)
                                <= 4 * ScaledSquares(xs)
                 /\ 4 * ScaledSquares(xs) <= (2 * r + 1) * (2 * r + 1) * n * n * (n - 1)

\* A single value remains after coercion.
C25_Witness ==
    /\ Done("analyze_numeric_column")
    /\ Len(values) >= 2
    /\ Len(Coercible(values)) = 1
    /\ result.value.std_dev = 0

\* C26: analyze_numeric_column computes its statistics over exactly the
\* values that coerce to a number and drops the others without raising; when
\* none remains it returns an error marker instead of statistics.
C26_OnlyCoercibleValues ==
    Done("analyze_numeric_column") =>
        LET xs == Coercible(values)
        IN /\ result.status = "returned"
           /\ IF xs = <<>>
              THEN DOMAIN result.value = {"error"}
              ELSE /\ DOMAIN result.value = NumericKeys
                   /\ result.value.mean = RoundHalfEven(SumSeq(xs), Len(xs))
                   /\ result.value.min_value \in {xs[i] : i \in 1..Len(xs)}
                   /\ result.value.max_value \in {xs[i] : i \in 1..Len(xs)}
                   /\ \A i \in 1..Len(xs) :
                         result.value.min_value <= xs[i] /\ xs[i] <= result.value.max_value
                   /\ result.value.range = result.value.max_value - result.value.min_value

\* A list of which some values coerce and some do not.
C26_Witness ==
    /\ Done("analyze_numeric_column")
    /\ Len(Coercible(values)) = 2
    /\ Len(values) = 4
    /\ \E i \in 1..4 : values[i].k = "null"
    /\ \E i \in 1..4 : values[i] = Yes
    /\ "mean" \in DOMAIN result.value

\* C28: the error markers never come out of the column dispatch: for a
\* non-empty list of non-null values, a profile inferred numeric has a value
\* that coerces, numeric statistics and no error entry, and a profile
\* inferred text has a non-empty value, text statistics and no error entry.
C28_NoErrorThroughDispatch ==
    (/\ Done("analyze_column")
     /\ values # <<>>
     /\ \A i \in 1..Len(values) : values[i].k # "null")
    => /\ result.value.data_type = "numeric" =>
             /\ Coercible(values) # <<>>
             /\ NumericKeys \subseteq DOMAIN result.value
             /\ "error" \notin DOMAIN result.value
       /\ result.value.data_type = "text" =>
             /\ \E i \in 1..Len(values) : values[i].k = "text" /\ Len(values[i].s) > 0
             /\ TextKeys \subseteq DOMAIN result.value
             /\ "error" \notin DOMAIN result.value

\* A numeric profile of five values one of which does not coerce.
C28_Witness ==
    /\ Done("analyze_column")
    /\ Len(values) = 5
    /\ Len(Coercible(values)) = 4
    /\ result.value.data_type = "numeric"
    /\ "mean" \in DOMAIN result.value

\* The place where the textual form t is first met in vs.
FirstAt(vs, t) ==
    CHOOSE i \in 1..Len(vs) : Str(vs[i]) = t /\ \A j \in 1..(i - 1) : Str(vs[j]) # t

\* C27: the frequency distribution lists the categories by descending count,
\* categories of equal count in the order in which they were first met in the
\* column; the most frequent category is the first entry and category_count
\* is the number of entries.
C27_DescendingThenFirstSeen ==
    Done("analyze_categorical_column") =>
        LET dist == result.value.frequency_distribution
        IN /\ \A j \in 1..Len(dist) : \A k \in (j + 1)..Len(dist) :
                 \/ dist[j].count > dist[k].count
                 \/ /\ dist[j].count = dist[k].count
                    /\ FirstAt(values, dist[j].category) < FirstAt(values, dist[k].category)
           /\ values # <<>> =>
                 result.value.most_common = <<dist[1].category, dist[1].count>>
           /\ result.value.category_count = Len(dist)

\* Three categories of one value each, met in another order than any sort
\* of the labels gives.
C27_Witness ==
    /\ Done("analyze_categorical_column")
    /\ values = <<Maybe, No, Yes>>
    /\ result.value.frequency_distribution[1].category = Maybe.s
    /\ result.value.frequency_distribution[3].category = Yes.s

\* C29: in every numeric satisfaction profile the bucket agrees with the
\* average score shown: the boundaries 8, 6 and 4 applied to average_score
\* (the mean rounded to two decimals) give satisfaction_level.
C29_BucketMatchesShownAverage ==
    (Done("analyze_satisfaction_column") /\ Coercible(values) # <<>>) =>
        /\ result.status = "returned"
        /\ "average_score" \in DOMAIN result.value
        /\ result.value.satisfaction_level =
              SatisfactionBucket(result.value.average_score, 100)

====
